---- MODULE Spec2Model ----
(***************************************************************************)
(* Turtle Trading signal core: the SignalEngine of                         *)
(* turtle_trading/core/signal_engine.py and the indicator computation of   *)
(* turtle_trading/core/data_manager.py.                                    *)
(*                                                                         *)
(* A pandas DataFrame is modelled by the part of it the engine reads:      *)
(* len(df), the set of columns, and the latest row df.iloc[-1].            *)
(* A float cell is a tagged record: a number, NaN, or Python's None.       *)
(***************************************************************************)
EXTENDS Integers, Sequences, FiniteSets, TLC

VARIABLES
    config,         \* SignalEngine.config.trading
    series,         \* the caller's raw price series (list of OHLC bars)
    data,           \* the Dict[str, DataFrame] last handed to the engine
    args,           \* the scalar arguments of the last call
    last_signals,   \* SignalEngine.last_signals
    before,         \* history: last_signals as it was when the last call began
    repeat,         \* history: the last call repeated the call before it (same
                    \* operation, same data)
    op,             \* name of the last operation called
    ret             \* what the last operation returned

vars == <<config, series, data, args, last_signals, before, repeat, op, ret>>

-----------------------------------------------------------------------------
(* Float cells.                                                            *)

Num(x) == [t |-> "num", v |-> x]
NaN == [t |-> "nan", v |-> 0]
None == [t |-> "none", v |-> 0]

\* pd.isna(x)
IsNa(a) == a.t # "num"

\* a > b and a < b on floats: any comparison with NaN is False
Gt(a, b) == a.t = "num" /\ b.t = "num" /\ a.v > b.v
Lt(a, b) == a.t = "num" /\ b.t = "num" /\ a.v < b.v

\* a - b and k * a on floats: NaN propagates
Sub(a, b) == IF a.t = "num" /\ b.t = "num" THEN Num(a.v - b.v) ELSE NaN
Scale(k, a) == IF a.t = "num" THEN Num(k * a.v) ELSE NaN

Max2(a, b) == IF a >= b THEN a ELSE b

-----------------------------------------------------------------------------
(* DataFrame columns: f'donchian_high_{length}' is <<"donchian_high", length>>. *)

Col(kind, w) == <<kind, w>>
CloseCol == Col("close", 0)

HasCol(df, c) == c \in DOMAIN df.row

\* latest_row.get(key, default)
RowGet(df, c, default) == IF HasCol(df, c) THEN df.row[c] ELSE default

\* dict[key] = value
Put(f, k, val) == [x \in (DOMAIN f) \cup {k} |-> IF x = k THEN val ELSE f[x]]

EmptyDict == [x \in {} |-> {}]

-----------------------------------------------------------------------------
(* Configuration.                                                          *)

TradingConfig ==
    [ system1_length |-> 20,
      system2_length |-> 55,
      use_system2 |-> TRUE,
      max_units_per_position |-> 5,
      pyramid_increment |-> [num |-> 1, den |-> 2],
      atr_period |-> 20,
      stop_atr_multiple |-> 2,
      exit_length_s1 |-> 10,
      exit_length_s2 |-> 20 ]

\* the configurations an engine is constructed with
Configs == { [TradingConfig EXCEPT !.use_system2 = u] : u \in BOOLEAN }

-----------------------------------------------------------------------------
(* Signals.                                                                *)

Signal(symbol, signal_type, timestamp, price, system, stop_price) ==
    [ symbol |-> symbol,
      signal_type |-> signal_type,
      timestamp |-> timestamp,
      price |-> price,
      system |-> system,
      confidence |-> 1,
      stop_price |-> stop_price,
      target_price |-> None,
      units |-> 1 ]

\* the result of a call that may raise
Returned(signals) == [raised |-> FALSE, signals |-> signals]
Raised == [raised |-> TRUE, signals |-> <<>>]

\* latest_row.name: the index label of the latest row
LatestDate(df) == df.len - 1

-----------------------------------------------------------------------------
(* SignalEngine._check_system1_signals / _check_system2_signals.           *)

\* "if current_price > donchian_high and not pd.isna(donchian_high)"
EntryFiresWeak(current_price, donchian_high) ==
    ~Lt(current_price, donchian_high) /\ current_price.t = "num" /\ ~IsNa(donchian_high)

EntryFires(current_price, donchian_high) ==
    Gt(current_price, donchian_high) /\ ~IsNa(donchian_high)

\* "if current_price < exit_low and not pd.isna(exit_low)"
ExitFires(current_price, exit_low) ==
    Lt(current_price, exit_low) /\ ~IsNa(exit_low)

\* the body shared by the two (textually parallel) methods
CheckSystemSignals(c, symbol, df, system, length, exit_length) ==
    IF ~HasCol(df, Col("donchian_high", length)) THEN Returned(<<>>)
    ELSE IF ~HasCol(df, CloseCol) \/ ~HasCol(df, Col("donchian_low", length)) THEN Raised
    ELSE
        LET current_price == df.row[CloseCol]
            donchian_high == df.row[Col("donchian_high", length)]
            atr == RowGet(df, Col("atr", c.atr_period), Num(0))
            stop_price == Sub(current_price, Scale(c.stop_atr_multiple, atr))
            entry == IF EntryFires(current_price, donchian_high)
                     THEN << Signal(symbol, "BUY", LatestDate(df), current_price,
                                    system, stop_price) >>
                     ELSE <<>>
            exit == IF HasCol(df, Col("donchian_low", exit_length))
                       /\ ExitFires(current_price, df.row[Col("donchian_low", exit_length)])
                    THEN << Signal(symbol, "EXIT", LatestDate(df), current_price,
                                   system, None) >>
                    ELSE <<>>
        IN Returned(entry \o exit)

\* a check that lets the entry win over the exit of the same bar
CheckSystem1SignalsEntryWins(c, symbol, df) ==
    LET r == CheckSystemSignals(c, symbol, df, 1, c.system1_length, c.exit_length_s1)
    IN  IF r.raised \/ Len(r.signals) < 2 THEN r
        ELSE Returned(<<r.signals[1]>>)

CheckSystem1SignalsAsSystem2(c, symbol, df) ==
    CheckSystemSignals(c, symbol, df, 2, c.system1_length, c.exit_length_s1)

CheckSystem1Signals(c, symbol, df) ==
    CheckSystemSignals(c, symbol, df, 1, c.system1_length, c.exit_length_s1)

CheckSystem2Signals(c, symbol, df) ==
    CheckSystemSignals(c, symbol, df, 2, c.system2_length, c.exit_length_s2)

-----------------------------------------------------------------------------
(* SignalEngine._generate_symbol_signals.                                  *)

\* "len(df) < max(system1_length, system2_length)"
MinHistorySys1Only(c) == c.system1_length

\* a gate that counts System 2's length only when System 2 is in use
MinHistoryEnabledOnly(c) ==
    IF c.use_system2 THEN Max2(c.system1_length, c.system2_length)
    ELSE c.system1_length

MinHistory(c) == Max2(c.system1_length, c.system2_length)

GenerateSymbolSignalsSystem2First(c, symbol, df) ==
    IF df.len < MinHistory(c) THEN Returned(<<>>)
    ELSE IF df.len = 0 THEN Raised
    ELSE
        LET s1 == CheckSystem1Signals(c, symbol, df)
            s2 == CheckSystem2Signals(c, symbol, df)
        IN  IF s1.raised THEN Raised
            ELSE IF ~c.use_system2 THEN s1
            ELSE IF s2.raised THEN Raised
            ELSE Returned(s2.signals \o s1.signals)

\* an evaluation that keeps System 1's signals when System 2 raises
GenerateSymbolSignalsKeepSystem1(c, symbol, df) ==
    IF df.len < MinHistory(c) THEN Returned(<<>>)
    ELSE IF df.len = 0 THEN Raised
    ELSE
        LET s1 == CheckSystem1Signals(c, symbol, df)
            s2 == CheckSystem2Signals(c, symbol, df)
        IN  IF s1.raised THEN Raised
            ELSE IF ~c.use_system2 \/ s2.raised THEN s1
            ELSE Returned(s1.signals \o s2.signals)

GenerateSymbolSignals(c, symbol, df) ==
    IF df.len < MinHistory(c) THEN Returned(<<>>)
    ELSE IF df.len = 0 THEN Raised      \* df.iloc[-1] on an empty frame
    ELSE
        LET s1 == CheckSystem1Signals(c, symbol, df)
            s2 == CheckSystem2Signals(c, symbol, df)
        IN  IF s1.raised THEN Raised
            ELSE IF ~c.use_system2 THEN s1
            ELSE IF s2.raised THEN Raised
            ELSE Returned(s1.signals \o s2.signals)

-----------------------------------------------------------------------------
(* SignalEngine.generate_signals: the loop over data.items().              *)

\* lines 48-50: "if signals:" record them in all_signals and last_signals
RecordAlways(acc, symbol, signals) ==
    [all |-> Put(acc.all, symbol, signals), ls |-> Put(acc.ls, symbol, signals)]

RecordAppend(acc, symbol, signals) ==
    IF signals # <<>>
    THEN [all |-> Put(acc.all, symbol, signals),
          ls |-> Put(acc.ls, symbol,
                     (IF symbol \in DOMAIN acc.ls THEN acc.ls[symbol] ELSE <<>>) \o signals)]
    ELSE acc

\* a record that an instrument recorded earlier in the same call blocks
RecordFirstOnly(acc, symbol, signals) ==
    IF signals # <<>> /\ DOMAIN acc.all = {}
    THEN [all |-> Put(acc.all, symbol, signals), ls |-> Put(acc.ls, symbol, signals)]
    ELSE acc

\* a record that forgets the instrument when it has no signal
RecordOrClear(acc, symbol, signals) ==
    IF signals # <<>>
    THEN [all |-> Put(acc.all, symbol, signals), ls |-> Put(acc.ls, symbol, signals)]
    ELSE [all |-> acc.all,
          ls |-> [x \in (DOMAIN acc.ls) \ {symbol} |-> acc.ls[x]]]

RecordSignals(acc, symbol, signals) ==
    IF signals # <<>>
    THEN [all |-> Put(acc.all, symbol, signals), ls |-> Put(acc.ls, symbol, signals)]
    ELSE acc

RECURSIVE SignalsLoopAbort(_, _, _)
SignalsLoopAbort(c, items, acc) ==
    IF items = <<>> THEN acc
    ELSE LET symbol == Head(items)[1]
             r == GenerateSymbolSignals(c, symbol, Head(items)[2])
         IN  IF r.raised THEN acc
             ELSE SignalsLoopAbort(c, Tail(items), RecordSignals(acc, symbol, r.signals))

\* lines 45-54: one iteration per (symbol, df); an exception skips the symbol
RECURSIVE SignalsLoop(_, _, _)
SignalsLoop(c, items, acc) ==
    IF items = <<>> THEN acc
    ELSE LET symbol == Head(items)[1]
             r == GenerateSymbolSignals(c, symbol, Head(items)[2])
         IN  IF r.raised THEN SignalsLoop(c, Tail(items), acc)
             ELSE SignalsLoop(c, Tail(items), RecordSignals(acc, symbol, r.signals))

GenerateSignals(d) ==
    LET out == SignalsLoop(config, d, [all |-> EmptyDict, ls |-> last_signals])
    IN  /\ data' = d
        /\ op' = "generate_signals"
        /\ before' = last_signals
        /\ repeat' = (op = "generate_signals" /\ d = data)
        /\ last_signals' = out.ls
        /\ ret' = out.all
        /\ args' = <<>>
        /\ UNCHANGED <<config, series>>

-----------------------------------------------------------------------------
(* SignalEngine.get_stop_loss_price.                                       *)

Value(x) == [raised |-> FALSE, value |-> x]
RaisedValue == [raised |-> TRUE, value |-> None]

GetStopLossPriceNoMultiple(c, symbol, df, entry_price) ==
    IF df.len = 0 THEN RaisedValue
    ELSE Value(Sub(entry_price, RowGet(df, Col("atr", c.atr_period), Num(0))))

GetStopLossPrice(c, symbol, df, entry_price) ==
    IF df.len = 0 THEN RaisedValue      \* df.iloc[-1] on an empty frame
    ELSE LET atr == RowGet(df, Col("atr", c.atr_period), Num(0))
         IN  Value(Sub(entry_price, Scale(c.stop_atr_multiple, atr)))

StopLossCall(symbol, df, entry_price) ==
    /\ data' = <<<<symbol, df>>>>
    /\ args' = [entry_price |-> entry_price]
    /\ op' = "get_stop_loss_price"
    /\ before' = last_signals
    /\ repeat' = FALSE
    /\ ret' = GetStopLossPrice(config, symbol, df, entry_price)
    /\ UNCHANGED <<config, series, last_signals>>

-----------------------------------------------------------------------------
(* check_pyramid_signals: one more unit when the close has run far enough  *)
(* above the position's price.                                             *)

AtUnitCapStrict(c, current_units) == current_units > c.max_units_per_position

\* if current_units >= self.config.trading.max_units_per_position
AtUnitCap(c, current_units) == current_units >= c.max_units_per_position

\* current_price > current_position_price + pyramid_increment * atr * units,
\* with the increment num/den cleared of its denominator; a NaN on either
\* side compares False
PyramidFires(c, current_price, atr, current_position_price, current_units) ==
    /\ current_price.t = "num"
    /\ atr.t = "num"
    /\ current_position_price.t = "num"
    /\ c.pyramid_increment.den * current_price.v
          > c.pyramid_increment.den * current_position_price.v
            + c.pyramid_increment.num * atr.v * current_units

CheckPyramidSignals(c, symbol, df, current_position_price, current_units) ==
    IF AtUnitCap(c, current_units) THEN Value(None)
    ELSE IF df.len = 0 THEN RaisedValue             \* df.iloc[-1]
    ELSE IF ~HasCol(df, CloseCol) THEN RaisedValue   \* latest_row['close']
    ELSE
        LET current_price == df.row[CloseCol]
            atr == RowGet(df, Col("atr", c.atr_period), Num(0))
        IN  IF PyramidFires(c, current_price, atr,
                            current_position_price, current_units)
            THEN Value(Signal(symbol, "PYRAMID", LatestDate(df), current_price, 1,
                              Sub(current_price, Scale(c.stop_atr_multiple, atr))))
            ELSE Value(None)

\* a check_pyramid_signals that also files its signal under the symbol
PyramidCallRecording(symbol, df, current_position_price, current_units) ==
    LET r == CheckPyramidSignals(config, symbol, df,
                                 current_position_price, current_units)
    IN  /\ data' = <<<<symbol, df>>>>
        /\ args' = [current_position_price |-> current_position_price,
                    current_units |-> current_units]
        /\ op' = "check_pyramid_signals"
        /\ before' = last_signals
        /\ repeat' = (op = "check_pyramid_signals" /\ data' = data /\ args' = args)
        /\ ret' = r
        /\ last_signals' = IF r.raised \/ r.value = None THEN last_signals
                           ELSE Put(last_signals, symbol, <<r.value>>)
        /\ UNCHANGED <<config, series>>

PyramidCall(symbol, df, current_position_price, current_units) ==
    /\ data' = <<<<symbol, df>>>>
    /\ args' = [current_position_price |-> current_position_price,
                current_units |-> current_units]
    /\ op' = "check_pyramid_signals"
    /\ before' = last_signals
    /\ repeat' = (op = "check_pyramid_signals" /\ data' = data /\ args' = args)
    /\ ret' = CheckPyramidSignals(config, symbol, df,
                                  current_position_price, current_units)
    /\ UNCHANGED <<config, series, last_signals>>

-----------------------------------------------------------------------------
(* get_signal_summary: counts over last_signals.                           *)

SignalType == {"BUY", "SELL", "HOLD", "PYRAMID", "EXIT"}

SystemKey(system) == IF system = 1 THEN "system_1" ELSE "system_2"

\* all_signals: the recorded lists, one after the other
RECURSIVE AllSignals(_, _)
AllSignals(ls, keys) ==
    IF keys = {} THEN <<>>
    ELSE LET k == CHOOSE x \in keys : TRUE
         IN  ls[k] \o AllSignals(ls, keys \ {k})

CountOfType(all, signal_type) ==
    Cardinality({i \in 1..Len(all) : all[i].signal_type = signal_type})

CountOfSystem(all, system) ==
    Cardinality({i \in 1..Len(all) : all[i].system = system})

\* a summary that keeps the keys whose count is zero
GetSignalSummaryDense(ls) ==
    LET all == AllSignals(ls, DOMAIN ls)
    IN  [ total_symbols |-> Cardinality(DOMAIN ls),
          signals_by_type |-> [t \in SignalType |-> CountOfType(all, t)],
          signals_by_system |->
              [k \in {SystemKey(1), SystemKey(2)} |->
                  CountOfSystem(all, IF k = SystemKey(1) THEN 1 ELSE 2)] ]

GetSignalSummary(ls) ==
    LET all == AllSignals(ls, DOMAIN ls)
    IN  [ total_symbols |-> Cardinality(DOMAIN ls),
          signals_by_type |->
              [t \in {x \in SignalType : CountOfType(all, x) > 0} |->
                  CountOfType(all, t)],
          signals_by_system |->
              [k \in {SystemKey(y) : y \in {x \in {1, 2} : CountOfSystem(all, x) > 0}} |->
                  CountOfSystem(all, IF k = SystemKey(1) THEN 1 ELSE 2)] ]

SummaryCall ==
    /\ data' = <<>>
    /\ args' = <<>>
    /\ op' = "get_signal_summary"
    /\ before' = last_signals
    /\ repeat' = FALSE
    /\ ret' = GetSignalSummary(last_signals)
    /\ UNCHANGED <<config, series, last_signals>>

-----------------------------------------------------------------------------
(* DataManager.calculate_technical_indicators.                             *)
(* A price series is a sequence of bars; bar index i of the code is        *)
(* position i + 1 here.  Prices are integers, multiples of PriceUnit, so   *)
(* that every rolling mean below is exact.                                 *)

DonchianPeriods == {10, 20, 55}
AtrPeriods == {10, 20, 30}
SmaPeriods == {10, 20, 50, 200}
VolatilityPeriods == {10, 20, 30}

\* a common multiple of the mean windows (10, 20, 30, 50, 200)
PriceUnit == 3 * 200

RECURSIVE SetMax(_)
SetMax(S) ==
    LET x == CHOOSE y \in S : TRUE
    IN  IF S = {x} THEN x ELSE Max2(x, SetMax(S \ {x}))

RECURSIVE SetMin(_)
SetMin(S) ==
    LET x == CHOOSE y \in S : TRUE
    IN  IF S = {x} THEN x
        ELSE LET m == SetMin(S \ {x}) IN IF x <= m THEN x ELSE m

RECURSIVE SumOver(_, _, _)
SumOver(f, lo, hi) == IF lo > hi THEN 0 ELSE f[hi] + SumOver(f, lo, hi - 1)

Abs(x) == IF x < 0 THEN 0 - x ELSE x

\* rolling(window=w): the positions of the window ending at p; the result is
\* NaN until the window holds w observations (min_periods = window)
Window(p, w) == (p - w + 1)..p

\* a rolling maximum whose window reaches one bar past p
DonchianHighLookAhead(bars, p, w) ==
    IF p < w THEN NaN
    ELSE Num(SetMax({bars[k].high :
                       k \in (p - w + 1)..(IF p < Len(bars) THEN p + 1 ELSE p)}))

\* a rolling minimum over whatever the window holds (min_periods = 1)
DonchianLowPartial(bars, p, w) ==
    Num(SetMin({bars[k].low : k \in (IF p < w THEN 1 ELSE p - w + 1)..p}))

\* a rolling maximum over the w bars before p (the channel of the days
\* before the current one)
DonchianHighPrior(bars, p, w) ==
    IF p <= w THEN NaN ELSE Num(SetMax({bars[k].high : k \in (p - w)..(p - 1)}))

\* df['high'].rolling(window=period).max()
DonchianHigh(bars, p, w) ==
    IF p < w THEN NaN ELSE Num(SetMax({bars[k].high : k \in Window(p, w)}))

\* df['low'].rolling(window=period).min()
DonchianLow(bars, p, w) ==
    IF p < w THEN NaN ELSE Num(SetMin({bars[k].low : k \in Window(p, w)}))

\* df[['tr1', 'tr2', 'tr3']].max(axis=1): the row maximum skips NaN, so the
\* first bar (no previous close) has true_range = high - low
TrueRange(bars, p) ==
    IF p = 1 THEN bars[1].high - bars[1].low
    ELSE SetMax({ bars[p].high - bars[p].low,
                  Abs(bars[p].high - bars[p - 1].close),
                  Abs(bars[p].low - bars[p - 1].close) })

\* df['true_range'].rolling(window=period).mean()
Atr(bars, p, w) ==
    IF p < w THEN NaN
    ELSE Num(SumOver([k \in 1..Len(bars) |-> TrueRange(bars, k)], p - w + 1, p) \div w)

\* df['close'].rolling(window=period).mean()
Sma(bars, p, w) ==
    IF p < w THEN NaN
    ELSE Num(SumOver([k \in 1..Len(bars) |-> bars[k].close], p - w + 1, p) \div w)

\* a float the engine never computes with, kept as the expression it is
Expr(e) == [t |-> "num", v |-> 0, expr |-> e]

\* df['close'].pct_change()
Returns(bars, p) ==
    IF p = 1 THEN NaN ELSE Expr(<<"pct_change", bars[p - 1].close, bars[p].close>>)

\* df['returns'].rolling(window=period).std() * np.sqrt(252): NaN until the
\* window holds w returns, the first of which is at bar 1
Volatility(bars, p, w) ==
    IF p - 1 < w THEN NaN
    ELSE Expr(<<"std", [k \in 1..w |-> Returns(bars, p - w + k)]>>)

IndicatorColumns ==
    {Col(k, 0) : k \in {"open", "high", "low", "close", "volume", "true_range", "returns"}}
    \cup {Col("donchian_high", w) : w \in DonchianPeriods}
    \cup {Col("donchian_low", w) : w \in DonchianPeriods}
    \cup {Col("atr", w) : w \in AtrPeriods}
    \cup {Col("sma", w) : w \in SmaPeriods}
    \cup {Col("volatility", w) : w \in VolatilityPeriods}

\* row p of the DataFrame calculate_technical_indicators returns
IndicatorRow(bars, p) ==
    [ c \in IndicatorColumns |->
        CASE c[1] = "open" -> Num(bars[p].open)
          [] c[1] = "high" -> Num(bars[p].high)
          [] c[1] = "low" -> Num(bars[p].low)
          [] c[1] = "close" -> Num(bars[p].close)
          [] c[1] = "volume" -> Num(bars[p].volume)
          [] c[1] = "true_range" -> Num(TrueRange(bars, p))
          [] c[1] = "returns" -> Returns(bars, p)
          [] c[1] = "donchian_high" -> DonchianHigh(bars, p, c[2])
          [] c[1] = "donchian_low" -> DonchianLow(bars, p, c[2])
          [] c[1] = "atr" -> Atr(bars, p, c[2])
          [] c[1] = "sma" -> Sma(bars, p, c[2])
          [] c[1] = "volatility" -> Volatility(bars, p, c[2]) ]

\* the returned frame, as the engine sees it: its length and its latest row
CalculateTechnicalIndicators(bars) ==
    [ len |-> Len(bars),
      row |-> IF bars = <<>> THEN [c \in IndicatorColumns |-> NaN]
              ELSE IndicatorRow(bars, Len(bars)) ]

\* a computation that writes its columns into the caller's frame (no
\* df.copy()): the caller's bars come back with a true_range field
CalculateAllRowsInPlace(symbol) ==
    /\ data' = <<<<symbol, CalculateTechnicalIndicators(series)>>>>
    /\ args' = <<>>
    /\ op' = "calculate_technical_indicators"
    /\ before' = last_signals
    /\ repeat' = FALSE
    /\ ret' = [p \in 1..Len(series) |-> IndicatorRow(series, p)]
    /\ series' = [p \in 1..Len(series) |->
                     [ open |-> series[p].open, high |-> series[p].high,
                       low |-> series[p].low, close |-> series[p].close,
                       volume |-> series[p].volume,
                       true_range |-> TrueRange(series, p) ]]
    /\ UNCHANGED <<config, last_signals>>

\* every row of the returned frame, oldest first
IndicatorTable(bars) == [p \in 1..Len(bars) |-> IndicatorRow(bars, p)]

\* the same call with the whole returned frame kept, for what is said about
\* rows other than the latest
CalculateAllRowsCall(symbol) ==
    /\ data' = <<<<symbol, CalculateTechnicalIndicators(series)>>>>
    /\ args' = <<>>
    /\ op' = "calculate_technical_indicators"
    /\ before' = last_signals
    /\ repeat' = FALSE
    /\ ret' = IndicatorTable(series)
    /\ UNCHANGED <<config, series, last_signals>>

CalculateIndicatorsCall(symbol) ==
    /\ data' = <<<<symbol, CalculateTechnicalIndicators(series)>>>>
    /\ args' = <<>>
    /\ op' = "calculate_technical_indicators"
    /\ before' = last_signals
    /\ repeat' = FALSE
    /\ ret' = <<>>
    /\ UNCHANGED <<config, series, last_signals>>

-----------------------------------------------------------------------------
(* Input frames.                                                           *)

MaxPrice == 3
MaxAtr == 1

Absent == [t |-> "absent", v |-> 0]

\* a frame of n rows whose latest row holds the given cells (Absent: no column)
Frame(n, cells) ==
    [ len |-> n,
      row |-> [k \in {x \in DOMAIN cells : cells[x] # Absent} |-> cells[k]] ]

Cells(close, dh1, dl1, dlx, atr, dh2, dl2) ==
    (CloseCol :> close)
    @@ (Col("donchian_high", TradingConfig.system1_length) :> dh1)
    @@ (Col("donchian_low", TradingConfig.system1_length) :> dl1)
    @@ (Col("donchian_low", TradingConfig.exit_length_s1) :> dlx)
    @@ (Col("atr", TradingConfig.atr_period) :> atr)
    @@ (Col("donchian_high", TradingConfig.system2_length) :> dh2)
    @@ (Col("donchian_low", TradingConfig.system2_length) :> dl2)

Symbols == {"AAA", "BBB"}

\* the latest close of every input frame; channel values lie around it
Close0 == Num(2)

\* the cells a channel column and the ATR column may hold in an input frame
ChannelCells == {Absent, NaN} \cup {Num(p) : p \in 1..MaxPrice}
AtrCells == {Absent, NaN} \cup {Num(a) : a \in 0..MaxAtr}

\* frame lengths just below and at the minimum history of the default rules
Lengths == {MinHistory(TradingConfig) - 1, MinHistory(TradingConfig)}

\* frames handed to the engine in batches: one too short, one that lacks
\* donchian_low_20 (evaluating it raises KeyError), one that lacks
\* donchian_low_55 (System 2 raises after System 1 fired), and the well-formed ones
\* with or without a System 1 breakout and a System 1 exit
BatchFrames ==
    { Frame(MinHistory(TradingConfig) - 1,
            Cells(Close0, Num(1), Num(1), Num(MaxPrice), Num(MaxAtr), Num(1), Num(1))),
      Frame(MinHistory(TradingConfig),
            Cells(Close0, Num(1), Absent, Num(MaxPrice), Num(MaxAtr), Num(1), Num(1))),
      Frame(MinHistory(TradingConfig),
            Cells(Close0, Num(1), Num(1), Num(MaxPrice), Num(MaxAtr), Num(1), Absent)) }
    \cup
    { Frame(MinHistory(TradingConfig),
            Cells(Close0, dh1, Num(1), dlx, Num(MaxAtr), Num(1), Num(1))) :
        dh1 \in {Num(1), Num(2)},
        dlx \in {Num(1), Num(MaxPrice)} }

\* frames handed to the calls that read only close and ATR: the short one
\* and the one without donchian_low_20
ReadOnlyFrames ==
    { f \in BatchFrames :
        \/ f.len < MinHistory(TradingConfig)
        \/ ~HasCol(f, Col("donchian_low", TradingConfig.system1_length)) }

\* a data dict: distinct symbols in insertion order, each with its frame
\* (every pair of frames in one order, some pairs in the other)
Batches ==
    { <<<<s, f>>>> : s \in Symbols, f \in BatchFrames }
    \cup { <<<<"AAA", f>>, <<"BBB", g>>>> : f \in BatchFrames, g \in BatchFrames }
    \cup { <<<<"BBB", f>>, <<"AAA", g>>>> :
               f \in BatchFrames \ ReadOnlyFrames, g \in ReadOnlyFrames }

-----------------------------------------------------------------------------
(* The engine under batches of frames.                                     *)

Init ==
    /\ config \in Configs
    /\ series = <<>>
    /\ data = <<>>
    /\ args = <<>>
    /\ last_signals = EmptyDict
    /\ before = EmptyDict
    /\ repeat = FALSE
    /\ op = "init"
    /\ ret = <<>>

\* units held at a pyramid check: none, and the cap
BatchUnits == {0, TradingConfig.max_units_per_position}

Next ==
    \/ \E d \in Batches : GenerateSignals(d)
    \/ \E s \in Symbols, f \in ReadOnlyFrames, u \in BatchUnits :
           PyramidCall(s, f, Num(1), u)
    \/ \E f \in ReadOnlyFrames : StopLossCall("AAA", f, Close0)
    \/ SummaryCall

Spec == Init /\ [][Next]_vars

-----------------------------------------------------------------------------
(* Pyramid checks on one instrument, over every close, ATR, position price *)
(* and unit count.                                                         *)

MaxUnits == 6

PyramidCells(close, atr) ==
    (CloseCol :> close) @@ (Col("atr", TradingConfig.atr_period) :> atr)

PyramidFrames ==
    { Frame(0, PyramidCells(Absent, Absent)) }
    \cup { Frame(MinHistory(TradingConfig), PyramidCells(close, atr)) :
              close \in {Absent, NaN} \cup {Num(p) : p \in 1..MaxPrice},
              atr \in AtrCells }

PyramidConfigs ==
    { [c EXCEPT !.max_units_per_position = m] :
        c \in Configs, m \in {1, TradingConfig.max_units_per_position} }

PositionPrices == {Num(p) : p \in 0..MaxPrice}

InitPyramid ==
    /\ config \in PyramidConfigs
    /\ series = <<>>
    /\ data \in { <<<<"AAA", f>>>> : f \in PyramidFrames }
    /\ args = <<>>
    /\ last_signals = EmptyDict
    /\ before = EmptyDict
    /\ repeat = FALSE
    /\ op = "init"
    /\ ret = <<>>

NextPyramid ==
    \E price \in PositionPrices, units \in 0..MaxUnits :
        PyramidCall(data[1][1], data[1][2], price, units)

SpecPyramid == InitPyramid /\ [][NextPyramid]_vars

-----------------------------------------------------------------------------
(* The engine on one instrument, over every frame of FrameSpace.           *)

FrameSpace ==
    { Frame(n, Cells(close, dh1, dl1, dlx, atr, dh2, dl2)) :
        n \in Lengths,
        close \in {Absent, Close0},
        dh1 \in ChannelCells,
        dl1 \in ChannelCells,
        dlx \in ChannelCells,
        atr \in AtrCells,
        dh2 \in ChannelCells,
        dl2 \in {Absent, Num(1)} }

InitFrame ==
    /\ config \in Configs
    /\ series = <<>>
    /\ data \in { <<<<"AAA", f>>>> : f \in FrameSpace }
    /\ args = <<>>
    /\ last_signals = EmptyDict
    /\ before = EmptyDict
    /\ repeat = FALSE
    /\ op = "init"
    /\ ret = <<>>

NextFrame ==
    \/ GenerateSignals(data)
    \/ StopLossCall(data[1][1], data[1][2], Close0)

SpecFrame == InitFrame /\ [][NextFrame]_vars

-----------------------------------------------------------------------------
(* The pipeline: a price series, its indicators, then the engine.          *)

MaxBars == 61

\* lengths around the ATR window and the minimum history, the 60 bars of the
\* scenarios, and the longest series considered
SeriesLengths ==
    { TradingConfig.atr_period - 1, TradingConfig.atr_period,
      MinHistory(TradingConfig) - 1, MinHistory(TradingConfig), 60, MaxBars }

\* where a bar's high lies above its close and its low below it
Patterns == {"none", "all", "odd", "last", "notlast"}

Offset(pattern, p, n) ==
    CASE pattern = "none" -> 0
      [] pattern = "all" -> PriceUnit
      [] pattern = "odd" -> IF p % 2 = 1 THEN PriceUnit ELSE 0
      [] pattern = "last" -> IF p = n THEN PriceUnit ELSE 0
      [] pattern = "notlast" -> IF p = n THEN 0 ELSE PriceUnit
      [] pattern = "inverted" -> 0 - PriceUnit
      [] pattern = "lastinverted" -> IF p = n THEN 0 - PriceUnit ELSE 0

\* n bars closing at 100, the last one at last_close, each bar's high at most
\* one above and its low at most one below its close
PriceSeries(n, last_close, hi, lo) ==
    [ p \in 1..n |->
        LET close == IF p = n THEN last_close * PriceUnit ELSE 100 * PriceUnit
        IN  [ open |-> close,
              high |-> close + Offset(hi, p, n),
              low |-> close - Offset(lo, p, n),
              close |-> close,
              volume |-> 1000 ] ]

\* bars (all of them, or the latest) with the high below and the low above
\* the close: nothing on the way to the engine rejects them
BadPatterns == {"inverted", "lastinverted"}

SeriesFamily ==
    { PriceSeries(n, last_close, hi, lo) :
        n \in SeriesLengths, last_close \in {70, 100, 130},
        hi \in Patterns, lo \in Patterns }
    \cup { PriceSeries(n, last_close, bad, bad) :
              n \in SeriesLengths, last_close \in {70, 100, 130},
              bad \in BadPatterns }

PipelineConfigs ==
    { [TradingConfig EXCEPT !.use_system2 = u, !.atr_period = a] :
        u \in BOOLEAN, a \in {10, 20} }

EntryPrice == Num(100 * PriceUnit)

InitPipeline ==
    /\ config \in PipelineConfigs
    /\ series \in SeriesFamily
    /\ data = <<>>
    /\ args = <<>>
    /\ last_signals = EmptyDict
    /\ before = EmptyDict
    /\ repeat = FALSE
    /\ op = "init"
    /\ ret = <<>>

\* what an earlier generate_signals call was given, so that last_signals
\* holds a list when the series goes through the pipeline: one instrument
\* with a breakout above both entry channels
PriorBatches ==
    { <<<<s, Frame(MinHistory(TradingConfig),
                   Cells(Close0, Num(1), Num(1), Num(1), Num(MaxAtr), Num(1), Num(1)))>>>> :
        s \in Symbols }

\* data holds a frame with the computed columns (only
\* calculate_technical_indicators produces one here)
PipelineReady ==
    /\ data # <<>>
    /\ DOMAIN data[1][2].row = IndicatorColumns

NextPipeline ==
    \/ (op = "init" /\ \E d \in PriorBatches : GenerateSignals(d))
    \/ (~PipelineReady /\ CalculateIndicatorsCall("AAA"))
    \/ (PipelineReady /\ GenerateSignals(data))
    \/ (PipelineReady /\ StopLossCall(data[1][1], data[1][2], EntryPrice))

SpecPipeline == InitPipeline /\ [][NextPipeline]_vars

-----------------------------------------------------------------------------
(* Properties of generate_signals over batches (checked under Spec).       *)

SymbolAt(i) == data[i][1]
FrameAt(i) == data[i][2]
Computed(i) == GenerateSymbolSignals(config, SymbolAt(i), FrameAt(i))

\* last_signals holds for symbol s exactly what it held when the call began
Kept(s) ==
    /\ (s \in DOMAIN last_signals) <=> (s \in DOMAIN before)
    /\ s \in DOMAIN before => last_signals[s] = before[s]

\* C7: an instrument whose series has fewer rows than
\* max(system1_length, system2_length) gets the empty list without an
\* exception, is absent from the batch result, and its last_signals entry is
\* left as it was.
C7_ShortHistoryNoOpinion ==
    op = "generate_signals" =>
        \A i \in 1..Len(data) :
            FrameAt(i).len < Max2(config.system1_length, config.system2_length) =>
                /\ Computed(i) = Returned(<<>>)
                /\ SymbolAt(i) \notin DOMAIN ret
                /\ Kept(SymbolAt(i))

C7_Witness ==
    /\ op = "generate_signals"
    /\ Len(data) = 2
    /\ FrameAt(1).len < Max2(config.system1_length, config.system2_length)
    /\ SymbolAt(1) \in DOMAIN before
    /\ SymbolAt(2) \in DOMAIN ret

\* C8: after a generate_signals call, last_signals[s] is the new list for
\* every instrument whose computed list is non-empty, and is what it was
\* before (present or absent) for every instrument whose computed list is
\* empty.
C8_OverwriteOrKeep ==
    op = "generate_signals" =>
        \A i \in 1..Len(data) :
            ~Computed(i).raised =>
                IF Computed(i).signals # <<>>
                THEN /\ SymbolAt(i) \in DOMAIN last_signals
                     /\ last_signals[SymbolAt(i)] = Computed(i).signals
                ELSE Kept(SymbolAt(i))

C8_Witness ==
    /\ op = "generate_signals"
    /\ Len(data) = 2
    /\ ~Computed(1).raised /\ Computed(1).signals # <<>>
    /\ SymbolAt(1) \in DOMAIN before
    /\ before[SymbolAt(1)] # Computed(1).signals
    /\ last_signals[SymbolAt(1)] = Computed(1).signals
    /\ ~Computed(2).raised /\ Computed(2).signals = <<>>
    /\ SymbolAt(2) \in DOMAIN before
    /\ last_signals[SymbolAt(2)] = before[SymbolAt(2)]

\* C9: a generate_signals call that repeats the previous call on the same
\* data returns the same dictionary and leaves last_signals as the first
\* call left it.
C9_Idempotent ==
    [][ (op = "generate_signals" /\ op' = "generate_signals" /\ data' = data)
            => (ret' = ret /\ last_signals' = last_signals) ]_vars

C9_Witness ==
    /\ op = "generate_signals"
    /\ repeat
    /\ Len(data) = 2
    /\ DOMAIN ret = Symbols
    /\ last_signals = before

\* C10: when evaluating one instrument of a batch raises, that instrument is
\* absent from the result and every other instrument of the batch, before
\* or after it, gets exactly the signals it gets on its own.
C10_BatchIsolation ==
    op = "generate_signals" =>
        \A i \in 1..Len(data) :
            Computed(i).raised =>
                /\ SymbolAt(i) \notin DOMAIN ret
                /\ \A j \in 1..Len(data) :
                      ~Computed(j).raised =>
                          IF Computed(j).signals # <<>>
                          THEN /\ SymbolAt(j) \in DOMAIN ret
                               /\ ret[SymbolAt(j)] = Computed(j).signals
                          ELSE SymbolAt(j) \notin DOMAIN ret

C10_Witness ==
    /\ op = "generate_signals"
    /\ Len(data) = 2
    /\ Computed(1).raised
    /\ SymbolAt(2) \in DOMAIN ret
    /\ ret[SymbolAt(2)] = Computed(2).signals

-----------------------------------------------------------------------------
(* Properties of the entry rule and the stop price (checked under          *)
(* SpecFrame: one instrument, every frame of FrameSpace).                  *)

TheSymbol == data[1][1]
TheFrame == data[1][2]

\* the list generate_signals returned for the instrument ([] when absent)
ReturnedList == IF TheSymbol \in DOMAIN ret THEN ret[TheSymbol] ELSE <<>>

IsBuyOf(sig, system) == sig.signal_type = "BUY" /\ sig.system = system
BuysOf(list, system) == { k \in 1..Len(list) : IsBuyOf(list[k], system) }

SystemLength(system) ==
    IF system = 1 THEN config.system1_length ELSE config.system2_length

\* the latest close is strictly above the defined donchian_high of the system
Breakout(df, system) ==
    /\ HasCol(df, CloseCol)
    /\ HasCol(df, Col("donchian_high", SystemLength(system)))
    /\ df.row[CloseCol].t = "num"
    /\ df.row[Col("donchian_high", SystemLength(system))].t = "num"
    /\ df.row[CloseCol].v > df.row[Col("donchian_high", SystemLength(system))].v

\* every column the evaluation of the frame reads by name is present
Evaluable(df) ==
    /\ HasCol(df, CloseCol)
    /\ HasCol(df, Col("donchian_low", config.system1_length))
    /\ (config.use_system2 /\ HasCol(df, Col("donchian_high", config.system2_length)))
          => HasCol(df, Col("donchian_low", config.system2_length))

\* C2 as stated: a strict breakout above a defined donchian_high of System 1
\* always yields exactly one System 1 BUY, whatever the series length and the
\* other columns.
C2_Original ==
    op = "generate_signals" =>
        (Breakout(TheFrame, 1) => Cardinality(BuysOf(ReturnedList, 1)) = 1)

\* C2 amended: the same, for a series of at least
\* max(system1_length, system2_length) rows that holds the columns the
\* evaluation reads (close, donchian_low of System 1, and donchian_low of
\* System 2 when System 2 is enabled and its donchian_high is present).
C2_EntryOnBreakout ==
    op = "generate_signals" =>
        ( ( /\ Breakout(TheFrame, 1)
            /\ TheFrame.len >= Max2(config.system1_length, config.system2_length)
            /\ Evaluable(TheFrame) )
          => /\ Cardinality(BuysOf(ReturnedList, 1)) = 1
             /\ GenerateSymbolSignals(config, TheSymbol, TheFrame) = Returned(ReturnedList) )

C2_Witness ==
    /\ op = "generate_signals"
    /\ Breakout(TheFrame, 1)
    /\ TheFrame.len >= Max2(config.system1_length, config.system2_length)
    /\ Evaluable(TheFrame)
    /\ config.use_system2
    /\ Cardinality(BuysOf(ReturnedList, 1)) = 1
    /\ Len(ReturnedList) > 1

\* the donchian_high of the system is present and either NaN or exactly the
\* latest close
NoMargin(df, system) ==
    /\ HasCol(df, CloseCol)
    /\ HasCol(df, Col("donchian_high", SystemLength(system)))
    /\ \/ df.row[Col("donchian_high", SystemLength(system))] = NaN
       \/ df.row[Col("donchian_high", SystemLength(system))] = df.row[CloseCol]

\* C3: entry is strict: with the latest close equal to the donchian_high of
\* an enabled system, or that high NaN, no BUY of that system is emitted.
C3_StrictEntry ==
    op = "generate_signals" =>
        \A system \in {1, 2} :
            ((system = 1 \/ config.use_system2) /\ NoMargin(TheFrame, system))
                => BuysOf(ReturnedList, system) = {}

C3_Witness ==
    /\ op = "generate_signals"
    /\ config.use_system2
    /\ NoMargin(TheFrame, 1)
    /\ TheFrame.row[Col("donchian_high", SystemLength(1))] = TheFrame.row[CloseCol]
    /\ BuysOf(ReturnedList, 2) # {}
    /\ BuysOf(ReturnedList, 1) = {}

\* C4 as stated: every BUY signal generate_signals emits has
\* stop_price < price, also when the ATR column is absent, NaN or zero.
C4_StopBelowPrice ==
    op = "generate_signals" =>
        \A k \in 1..Len(ReturnedList) :
            ReturnedList[k].signal_type = "BUY"
                => Lt(ReturnedList[k].stop_price, ReturnedList[k].price)

\* the ATR at atr_period is undefined at the latest bar
AtrUndefined(df) ==
    \/ ~HasCol(df, Col("atr", config.atr_period))
    \/ df.row[Col("atr", config.atr_period)] = NaN

\* C5 as stated: get_stop_loss_price fails (MissingIndicator) when the ATR at
\* atr_period is NaN at the latest bar or was never computed.
C5_MissingIndicator ==
    (op = "get_stop_loss_price" /\ AtrUndefined(TheFrame)) => ret.raised

-----------------------------------------------------------------------------
(* validate_data_quality, on a frame given as the sequence of its rows.    *)

\* the caller's price frame: one row per bar, the five price columns
PriceTable(bars) ==
    [ p \in 1..Len(bars) |->
        [ c \in {Col(k, 0) : k \in {"open", "high", "low", "close", "volume"}} |->
            CASE c[1] = "open" -> Num(bars[p].open)
              [] c[1] = "high" -> Num(bars[p].high)
              [] c[1] = "low" -> Num(bars[p].low)
              [] c[1] = "close" -> Num(bars[p].close)
              [] c[1] = "volume" -> Num(bars[p].volume) ] ]

Columns(df) == IF df = <<>> THEN {} ELSE DOMAIN df[1]

\* a missing-data test that looks at the price columns only
HasMissingInPrices(df) ==
    \E p \in 1..Len(df) :
        \E c \in Columns(df) \cap {Col(k, 0) : k \in {"open", "high", "low", "close"}} :
            IsNa(df[p][c])

\* df.isnull().any().any()
HasMissing(df) == \E p \in 1..Len(df) : \E c \in Columns(df) : IsNa(df[p][c])

\* (df[col] <= 0).any()
HasNonPositive(df, c) ==
    \E p \in 1..Len(df) : df[p][c].t = "num" /\ df[p][c].v <= 0

\* (df['high'] < df['low']).any()
HasHighBelowLow(df) ==
    \E p \in 1..Len(df) : Lt(df[p][Col("high", 0)], df[p][Col("low", 0)])

\* (df['close'].pct_change().abs() > 0.5).any(), for closes that are numbers:
\* |c[p] - c[p-1]| / |c[p-1]| > 1/2
HasExtremeMove(df) ==
    \E p \in 2..Len(df) :
        /\ df[p][CloseCol].t = "num"
        /\ df[p - 1][CloseCol].t = "num"
        /\ 2 * Abs(df[p][CloseCol].v - df[p - 1][CloseCol].v) > Abs(df[p - 1][CloseCol].v)

PriceIssues(df) ==
    LET issue(k) == IF Col(k, 0) \in Columns(df) /\ HasNonPositive(df, Col(k, 0))
                    THEN << <<"Negative or zero prices in", k>> >> ELSE <<>>
    IN  issue("open") \o issue("high") \o issue("low") \o issue("close")

ValidateDataQuality(df) ==
    LET issues ==
            (IF HasMissing(df) THEN <<"Missing data found">> ELSE <<>>)
            \o PriceIssues(df)
            \o (IF /\ Col("high", 0) \in Columns(df)
                   /\ Col("low", 0) \in Columns(df)
                   /\ HasHighBelowLow(df)
                THEN <<"High < Low found">> ELSE <<>>)
            \o (IF CloseCol \in Columns(df) /\ HasExtremeMove(df)
                THEN <<"Extreme price movements detected">> ELSE <<>>)
            \o (IF Len(df) < 60 THEN <<"Insufficient data for analysis">> ELSE <<>>)
    IN  [is_valid |-> Len(issues) = 0, issues |-> issues]

ValidateCall(df) ==
    /\ args' = [df |-> df]
    /\ op' = "validate_data_quality"
    /\ ret' = ValidateDataQuality(df)
    /\ UNCHANGED <<config, series, data, last_signals, before, repeat>>

-----------------------------------------------------------------------------
(* The indicators of every row, over series with a spike or a trend.       *)

\* lengths around the shortest and the longest Donchian window, one bar,
\* and the longest series considered
IndicatorLengths == {1, 10, 11, 55, MaxBars}

\* n bars closing at 100 + slope * p, bar k at level instead
SpikeSeries(n, k, level, slope, hi, lo) ==
    [ p \in 1..n |->
        LET close == (IF p = k THEN level ELSE 100 + slope * p) * PriceUnit
        IN  [ open |-> close,
              high |-> close + Offset(hi, p, n),
              low |-> close - Offset(lo, p, n),
              close |-> close,
              volume |-> 1000 ] ]

\* the series handed to the computation: well-formed ones with a spike or
\* a trend, the empty one, and ones whose bars (all, or the latest) have
\* their high below and their low above the close
IndicatorFamily ==
    { SpikeSeries(n, k, level, 0, hi, lo) :
        n \in IndicatorLengths, k \in {1, 2, 12}, level \in {70, 130},
        hi \in {"none", "odd"}, lo \in {"none", "odd"} }
    \cup { SpikeSeries(n, 0, 100, slope, "odd", "odd") :
              n \in {55, MaxBars}, slope \in {0 - 1, 1} }
    \cup { <<>> }
    \cup { SpikeSeries(n, 0, 100, 0, hi, lo) :
              n \in IndicatorLengths,
              hi \in {"none", "inverted", "lastinverted"},
              lo \in {"none", "inverted", "lastinverted"} }

InitIndicators ==
    /\ config = TradingConfig
    /\ series \in IndicatorFamily
    /\ data = <<>>
    /\ args = <<>>
    /\ last_signals = EmptyDict
    /\ before = EmptyDict
    /\ repeat = FALSE
    /\ op = "init"
    /\ ret = <<>>

NextIndicators ==
    \/ (op = "init" /\ CalculateAllRowsCall("AAA"))
    \/ (op = "init" /\ ValidateCall(PriceTable(series)))
    \/ (op = "calculate_technical_indicators" /\ ValidateCall(ret))

SpecIndicators == InitIndicators /\ [][NextIndicators]_vars

-----------------------------------------------------------------------------
(* Config.update_trading_params.  Here config holds the whole Config       *)
(* object (the engine reads its trading section only); floats that are not *)
(* integers are kept as fractions.                                         *)

\* every field of TradingConfig
TradingParams ==
    [ system1_length |-> 20, system2_length |-> 55, use_system2 |-> TRUE,
      risk_per_unit |-> [num |-> 1, den |-> 100],
      max_risk_per_position |-> [num |-> 2, den |-> 100],
      max_units_per_position |-> 5,
      pyramid_increment |-> [num |-> 1, den |-> 2],
      atr_period |-> 20, stop_atr_multiple |-> 2,
      exit_length_s1 |-> 10, exit_length_s2 |-> 20,
      max_position_time |-> 252, order_type |-> "market",
      slippage_bps |-> 5,
      commission_per_share |-> [num |-> 5, den |-> 1000] ]

\* Config(): the trading section and the sections beside it
DefaultConfig ==
    [ trading |-> TradingParams,
      data |-> [provider |-> "yfinance", universe |-> "sp500",
                start_date |-> "2020-01-01", data_frequency |-> "1d"],
      account |-> [initial_capital |-> 100000, currency |-> "USD"],
      backtest |-> [start_date |-> "2010-01-01", end_date |-> "2023-12-31",
                    benchmark |-> "SPY"],
      monitoring |-> [max_drawdown_alert |-> [num |-> 15, den |-> 100]],
      logging |-> [level |-> "INFO", backup_count |-> 5] ]

\* @validator('risk_per_unit', 'max_risk_per_position'): 0 < v <= 1
ValidateRisk(v) == 0 < v.num /\ v.num <= v.den

\* trading_dict = self.trading.dict(); trading_dict.update(kwargs)
UpdatedDict(d, kwargs) ==
    [ k \in (DOMAIN d) \cup (DOMAIN kwargs) |->
        IF k \in DOMAIN kwargs THEN kwargs[k] ELSE d[k] ]

\* TradingConfig(**trading_dict): keys that are no field are ignored, the
\* risk validators may raise
NewTradingConfig(trading_dict) ==
    IF /\ ValidateRisk(trading_dict["risk_per_unit"])
       /\ ValidateRisk(trading_dict["max_risk_per_position"])
    THEN Value([k \in DOMAIN TradingParams |-> trading_dict[k]])
    ELSE RaisedValue

UpdateTradingParams(c, kwargs) ==
    LET trading == NewTradingConfig(UpdatedDict(c.trading, kwargs))
    IN  IF trading.raised THEN RaisedValue
        ELSE Value([c EXCEPT !.trading = trading.value])

\* an update that assigns the new trading section to self
UpdateCallInPlace(kwargs) ==
    LET r == UpdateTradingParams(config, kwargs)
    IN  /\ args' = kwargs
        /\ op' = "update_trading_params"
        /\ ret' = r
        /\ config' = IF r.raised THEN config ELSE r.value
        /\ UNCHANGED <<series, data, last_signals, before, repeat>>

UpdateCall(kwargs) ==
    /\ args' = kwargs
    /\ op' = "update_trading_params"
    /\ ret' = UpdateTradingParams(config, kwargs)
    /\ UNCHANGED <<config, series, data, last_signals, before, repeat>>

\* for each key, the values a caller may pass for it
KwargValues ==
    [ system1_length |-> {10, 30},
      risk_per_unit |-> { [num |-> 3, den |-> 200], [num |-> 0, den |-> 1],
                          [num |-> 2, den |-> 1] },
      use_system2 |-> {FALSE},
      atr_period |-> {10},
      max_risk_per_position |-> { [num |-> 1, den |-> 1] },
      no_such_param |-> {1} ]

\* no value, or one of the values
Choices(values) == {{}} \cup {{v} : v \in values}

\* **kwargs: the keys that were given a value
Kwargs(chosen) ==
    [ k \in {x \in DOMAIN chosen : chosen[x] # {}} |-> CHOOSE v \in chosen[k] : TRUE ]

KwargsSpace ==
    { Kwargs([ system1_length |-> a, risk_per_unit |-> b, use_system2 |-> c,
               atr_period |-> d, max_risk_per_position |-> e,
               no_such_param |-> f ]) :
        a \in Choices(KwargValues.system1_length),
        b \in Choices(KwargValues.risk_per_unit),
        c \in Choices(KwargValues.use_system2),
        d \in Choices(KwargValues.atr_period),
        e \in Choices(KwargValues.max_risk_per_position),
        f \in Choices(KwargValues.no_such_param) }

ConfigObjects ==
    { DefaultConfig,
      [DefaultConfig EXCEPT !.trading.use_system2 = FALSE,
                            !.trading.system1_length = 30,
                            !.account.initial_capital = 50000] }

InitConfig ==
    /\ config \in ConfigObjects
    /\ series = <<>>
    /\ data = <<>>
    /\ args = <<>>
    /\ last_signals = EmptyDict
    /\ before = EmptyDict
    /\ repeat = FALSE
    /\ op = "init"
    /\ ret = <<>>

NextConfig == \E kwargs \in KwargsSpace : UpdateCall(kwargs)

SpecConfig == InitConfig /\ [][NextConfig]_vars

-----------------------------------------------------------------------------
(* Properties of the read-only calls among batches (checked under Spec).   *)

ReadOnlyOps == {"check_pyramid_signals", "get_stop_loss_price"}

C15_RepeatWitness ==
    /\ op = "check_pyramid_signals"
    /\ repeat
    /\ ~ret.raised
    /\ ret.value # None

\* the recorded signals as (symbol, position) pairs
Recorded ==
    UNION { { <<s, i>> : i \in 1..Len(last_signals[s]) } : s \in DOMAIN last_signals }

RecordedOfType(t) ==
    { x \in Recorded : last_signals[x[1]][x[2]].signal_type = t }

RecordedOfSystem(system) ==
    { x \in Recorded : last_signals[x[1]][x[2]].system = system }

\* C16: get_signal_summary reports total_symbols = the number of
\* instruments recorded in last_signals, under signals_by_type the number
\* of recorded signals of each kind, under signals_by_system the number of
\* each system as system_1 / system_2, a key being present exactly when its
\* count is positive; and the call leaves last_signals as it was.
C16_Summary ==
    op = "get_signal_summary" =>
        /\ ret.total_symbols = Cardinality(DOMAIN last_signals)
        /\ DOMAIN ret.signals_by_type =
              { t \in SignalType : RecordedOfType(t) # {} }
        /\ \A t \in DOMAIN ret.signals_by_type :
              ret.signals_by_type[t] = Cardinality(RecordedOfType(t))
        /\ DOMAIN ret.signals_by_system =
              { SystemKey(y) : y \in { x \in {1, 2} : RecordedOfSystem(x) # {} } }
        /\ \A y \in {1, 2} :
              SystemKey(y) \in DOMAIN ret.signals_by_system =>
                  ret.signals_by_system[SystemKey(y)] = Cardinality(RecordedOfSystem(y))
        /\ last_signals = before

\* a summary over two instruments with entries and exits of both systems
C16_Witness ==
    /\ op = "get_signal_summary"
    /\ ret.total_symbols = 2
    /\ DOMAIN ret.signals_by_type = {"BUY", "EXIT"}
    /\ DOMAIN ret.signals_by_system = {"system_1", "system_2"}
    /\ ret.signals_by_type["BUY"] > ret.signals_by_type["EXIT"]

\* a summary of one instrument's System 1 entry alone: no other key
C16_SparseWitness ==
    /\ op = "get_signal_summary"
    /\ ret.total_symbols = 1
    /\ DOMAIN ret.signals_by_type = {"BUY"}
    /\ DOMAIN ret.signals_by_system = {"system_1"}

-----------------------------------------------------------------------------
(* Properties of the exit rule and of the order of the list (checked       *)
(* under SpecFrame).                                                       *)

ExitLength(system) ==
    IF system = 1 THEN config.exit_length_s1 ELSE config.exit_length_s2

\* the latest close is strictly below the defined donchian_low of the
\* system's exit channel
ExitBreak(df, system) ==
    /\ HasCol(df, CloseCol)
    /\ HasCol(df, Col("donchian_low", ExitLength(system)))
    /\ df.row[CloseCol].t = "num"
    /\ df.row[Col("donchian_low", ExitLength(system))].t = "num"
    /\ df.row[CloseCol].v < df.row[Col("donchian_low", ExitLength(system))].v

IsExitOf(sig, system) ==
    /\ sig.signal_type = "EXIT"
    /\ sig.system = system
    /\ sig.price = TheFrame.row[CloseCol]
    /\ sig.stop_price = None

\* C11 as stated (for a series with the minimum history): whenever the
\* latest close is strictly below the defined donchian_low of an enabled
\* system's exit channel, an EXIT of that system is emitted, with
\* price = close and no stop, whether or not the entry channel columns of
\* the system are present.
C11_ExitRule ==
    ( /\ op = "generate_signals"
      /\ TheFrame.len >= Max2(config.system1_length, config.system2_length) )
    => \A system \in {1, 2} :
           ((system = 1 \/ config.use_system2) /\ ExitBreak(TheFrame, system))
               => \E k \in 1..Len(ReturnedList) : IsExitOf(ReturnedList[k], system)

\* the place of a signal in the order System 1 entry, System 1 exit,
\* System 2 entry, System 2 exit (0: none of them)
Rank(sig) ==
    CASE sig.signal_type = "BUY" /\ sig.system = 1 -> 1
      [] sig.signal_type = "EXIT" /\ sig.system = 1 -> 2
      [] sig.signal_type = "BUY" /\ sig.system = 2 -> 3
      [] sig.signal_type = "EXIT" /\ sig.system = 2 -> 4
      [] OTHER -> 0

\* C12: the list returned for an instrument is a subsequence of
\* [System 1 entry, System 1 exit, System 2 entry, System 2 exit]: at most
\* four signals, each of the four at most once and in that order, and no
\* System 2 signal when use_system2 is false.
C12_FixedOrder ==
    op = "generate_signals" =>
        /\ Len(ReturnedList) <= 4
        /\ \A k \in 1..Len(ReturnedList) :
              /\ Rank(ReturnedList[k]) \in 1..4
              /\ ~config.use_system2 => ReturnedList[k].system = 1
        /\ \A k \in 1..Len(ReturnedList), m \in 1..Len(ReturnedList) :
              k < m => Rank(ReturnedList[k]) < Rank(ReturnedList[m])

C12_Witness ==
    /\ op = "generate_signals"
    /\ Len(ReturnedList) = 4
    /\ Rank(ReturnedList[1]) = 1
    /\ Rank(ReturnedList[4]) = 4

-----------------------------------------------------------------------------
(* Properties of the pyramid check (checked under SpecPyramid).            *)

\* C13: check_pyramid_signals returns None whenever current_units is at or
\* above max_units_per_position, whatever the price, the position's price
\* and the ATR, and also on a frame without rows or without a close or an
\* ATR column.
C13_UnitCap ==
    ( /\ op = "check_pyramid_signals"
      /\ args.current_units >= config.max_units_per_position )
    => ret = Value(None)

\* at the cap, on a frame whose close is above the position's price with a
\* zero ATR (below the cap the check would fire)
C13_Witness ==
    /\ op = "check_pyramid_signals"
    /\ args.current_units = config.max_units_per_position
    /\ HasCol(TheFrame, CloseCol)
    /\ Gt(TheFrame.row[CloseCol], args.current_position_price)
    /\ RowGet(TheFrame, Col("atr", config.atr_period), NaN) = Num(0)
    /\ ret = Value(None)

\* at the cap on a frame that has neither rows nor columns
C13_EmptyFrameWitness ==
    /\ op = "check_pyramid_signals"
    /\ args.current_units >= config.max_units_per_position
    /\ TheFrame.len = 0
    /\ ret = Value(None)

\* close[latest] > current_position_price
\*                    + pyramid_increment * atr_{atr_period}[latest] * units,
\* on the columns of the frame (a column that is absent has no value)
AboveThreshold(df) ==
    LET close == RowGet(df, CloseCol, NaN)
        atr == RowGet(df, Col("atr", config.atr_period), NaN)
    IN  /\ df.len > 0
        /\ close.t = "num"
        /\ atr.t = "num"
        /\ config.pyramid_increment.den * close.v
              > config.pyramid_increment.den * args.current_position_price.v
                + config.pyramid_increment.num * atr.v * args.current_units

\* C14 as stated (on a frame that has rows and a close column): below the
\* cap, check_pyramid_signals returns a PYRAMID signal exactly when the
\* latest close is above current_position_price + pyramid_increment * atr *
\* current_units; the signal has units = 1, price = close, system = 1 and
\* stop_price = close - stop_atr_multiple * atr; in every other case it
\* returns None.
C14_PyramidRule ==
    ( /\ op = "check_pyramid_signals"
      /\ args.current_units < config.max_units_per_position
      /\ TheFrame.len > 0
      /\ HasCol(TheFrame, CloseCol) )
    => IF AboveThreshold(TheFrame)
       THEN /\ ~ret.raised
            /\ ret.value # None
            /\ ret.value.signal_type = "PYRAMID"
            /\ ret.value.units = 1
            /\ ret.value.system = 1
            /\ ret.value.price = TheFrame.row[CloseCol]
            /\ ret.value.stop_price =
                  Num(TheFrame.row[CloseCol].v
                      - config.stop_atr_multiple
                        * TheFrame.row[Col("atr", config.atr_period)].v)
       ELSE ret = Value(None)

-----------------------------------------------------------------------------
(* Properties of the pipeline (checked under SpecPipeline).                *)

\* the frame in hand is what calculate_technical_indicators made of series
Enriched ==
    /\ data # <<>>
    /\ TheFrame = CalculateTechnicalIndicators(series)

\* 60 bars closing at 100 except the last at 130, every high within
\* [close, close + 1]
BreakoutScenario ==
    /\ Len(series) = 60
    /\ \A p \in 1..60 :
          /\ series[p].close = (IF p = 60 THEN 130 ELSE 100) * PriceUnit
          /\ series[p].high >= series[p].close
          /\ series[p].high <= series[p].close + PriceUnit

\* C1 as stated: on the breakout scenario, with system1_length = 20,
\* generate_signals over the computed indicators yields exactly one BUY of
\* System 1, at price 130.
C1_ScenarioEntry ==
    ( /\ op = "generate_signals"
      /\ Enriched
      /\ BreakoutScenario
      /\ config.system1_length = 20 )
    => /\ Cardinality(BuysOf(ReturnedList, 1)) = 1
       /\ \A k \in BuysOf(ReturnedList, 1) :
             ReturnedList[k].price = Num(130 * PriceUnit)

\* 60 bars with one price for open, high, low and close of every bar
FlatScenario ==
    /\ Len(series) = 60
    /\ \A p \in 1..60 :
          /\ series[p].close = series[1].close
          /\ series[p].open = series[p].close
          /\ series[p].high = series[p].close
          /\ series[p].low = series[p].close

\* C17: on the flat 60-bar scenario, generate_signals over the computed
\* indicators returns no signals, and the total_symbols of
\* get_signal_summary is after the call what it was before it, whatever
\* last_signals held.
C17_FlatScenario ==
    ( /\ op = "generate_signals"
      /\ Enriched
      /\ FlatScenario )
    => /\ ret = EmptyDict
       /\ GetSignalSummary(last_signals).total_symbols
            = GetSignalSummary(before).total_symbols

\* the flat scenario evaluated when last_signals already held a list
C17_Witness ==
    /\ op = "generate_signals"
    /\ Enriched
    /\ FlatScenario
    /\ before # EmptyDict
    /\ GetSignalSummary(last_signals).total_symbols = 1

\* the flat scenario evaluated on an engine that had recorded nothing
C17_EmptyWitness ==
    /\ op = "generate_signals"
    /\ Enriched
    /\ FlatScenario
    /\ before = EmptyDict
    /\ GetSignalSummary(last_signals).total_symbols = 0

\* the ATR at atr_period at the latest bar of the series
LatestAtr == Atr(series, Len(series), config.atr_period)

StopLossOnEnriched ==
    /\ op = "get_stop_loss_price"
    /\ Enriched
    /\ Len(series) >= config.atr_period

C6_FlatWitness ==
    /\ StopLossOnEnriched
    /\ LatestAtr = Num(0)
    /\ ret.value = args.entry_price

-----------------------------------------------------------------------------
(* Properties of the indicator rows (checked under SpecIndicators).        *)

\* the series with every bar after position p replaced by other prices
AlteredAfter(bars, p) ==
    [ k \in 1..Len(bars) |->
        IF k <= p THEN bars[k]
        ELSE [ open |-> bars[k].open + 7 * PriceUnit,
               high |-> bars[k].high + 9 * PriceUnit,
               low |-> bars[k].low + 5 * PriceUnit,
               close |-> bars[k].close + 7 * PriceUnit,
               volume |-> bars[k].volume + 1 ] ]

\* C18: row i of every indicator column is the same whether it is computed
\* on the full series, on the series cut after bar i, or on a series that
\* agrees with it on bars 0..i and differs afterwards.
C18_Causality ==
    op = "calculate_technical_indicators" =>
        \A p \in 1..Len(series) :
            /\ ret[p] = IndicatorRow(SubSeq(series, 1, p), p)
            /\ ret[p] = IndicatorRow(AlteredAfter(series, p), p)

\* a row whose windows are full and that is followed by a bar with another
\* high, so that a window reaching forward would see it
C18_Witness ==
    /\ op = "calculate_technical_indicators"
    /\ Len(series) = MaxBars
    /\ \E p \in 55..(MaxBars - 1) :
          /\ ret[p][Col("donchian_high", 55)].t = "num"
          /\ series[p + 1].high > ret[p][Col("donchian_high", 55)].v

\* C19: for each window w of 10, 20 and 55, donchian_high_w is NaN at bars
\* 0..w-2 and from bar w-1 on it is the greatest high of bars i-w+1..i;
\* donchian_low_w likewise with the least low.
C19_WindowBoundary ==
    op = "calculate_technical_indicators" =>
        \A w \in {10, 20, 55}, p \in 1..Len(series) :
            LET hi == ret[p][Col("donchian_high", w)]
                lo == ret[p][Col("donchian_low", w)]
            IN  IF p - 1 <= w - 2
                THEN hi = NaN /\ lo = NaN
                ELSE /\ hi.t = "num"
                     /\ \E k \in (p - w + 1)..p : series[k].high = hi.v
                     /\ \A k \in (p - w + 1)..p : series[k].high <= hi.v
                     /\ lo.t = "num"
                     /\ \E k \in (p - w + 1)..p : series[k].low = lo.v
                     /\ \A k \in (p - w + 1)..p : series[k].low >= lo.v

\* the boundary of the longest window, on a series whose extreme bar has
\* left the shortest window but not the longest
C19_Witness ==
    /\ op = "calculate_technical_indicators"
    /\ Len(series) >= 55
    /\ ret[54][Col("donchian_high", 55)] = NaN
    /\ ret[54][Col("donchian_low", 55)] = NaN
    /\ ret[55][Col("donchian_high", 55)].t = "num"
    /\ ret[55][Col("donchian_low", 55)].t = "num"
    /\ ret[55][Col("donchian_low", 10)].t = "num"
    /\ ret[55][Col("donchian_low", 55)].v < ret[55][Col("donchian_low", 10)].v

\* C20 as stated: true_range is undefined at bar 0 and defined from bar 1
\* on, and for each ATR window w, atr_w is undefined at bars 0..w-1 and
\* defined at bar w.
C20_AtrPropagation ==
    (op = "calculate_technical_indicators" /\ series # <<>>) =>
        /\ ret[1][Col("true_range", 0)] = NaN
        /\ \A p \in 2..Len(series) : ret[p][Col("true_range", 0)].t = "num"
        /\ \A w \in {10, 20, 30}, p \in 1..Len(series) :
              /\ p - 1 <= w - 1 => ret[p][Col("atr", w)] = NaN
              /\ p - 1 = w => ret[p][Col("atr", w)].t = "num"

\* a bar whose prices are out of order: high < low, high < close or
\* low > close
BadBar(bar) == bar.high < bar.low \/ bar.high < bar.close \/ bar.low > bar.close

Malformed(bars) == bars = <<>> \/ \E p \in 1..Len(bars) : BadBar(bars[p])

\* C21 as stated: for an empty series or one with a bar out of OHLC order
\* the computation fails and returns no indicator series.  (The windows are
\* fixed in the code, none is requested, so InvalidWindow has no case.)
C21_RejectsMalformed ==
    (op = "calculate_technical_indicators" /\ Malformed(series)) =>
        data = <<>>     \* no frame comes back

\* C22: calculate_technical_indicators leaves the caller's series as it was
\* and returns a frame with one row per bar, row i carrying the open, high,
\* low, close and volume of bar i.
C22_InputUntouched ==
    [][ op' = "calculate_technical_indicators" =>
          /\ series' = series
          /\ Len(ret') = Len(series)
          /\ data'[1][2].len = Len(series)
          /\ \A p \in 1..Len(series) :
                /\ ret'[p][Col("open", 0)] = Num(series[p].open)
                /\ ret'[p][Col("high", 0)] = Num(series[p].high)
                /\ ret'[p][Col("low", 0)] = Num(series[p].low)
                /\ ret'[p][CloseCol] = Num(series[p].close)
                /\ ret'[p][Col("volume", 0)] = Num(series[p].volume) ]_vars

\* a computed frame of the longest series, whose rows differ from one
\* another (a spike at bar 1)
C22_Witness ==
    /\ op = "calculate_technical_indicators"
    /\ Len(series) = MaxBars
    /\ Len(ret) = MaxBars
    /\ ret[2][CloseCol] # ret[1][CloseCol]
    /\ ret[MaxBars][CloseCol] = Num(series[MaxBars].close)

-----------------------------------------------------------------------------
(* Properties of Config.update_trading_params (checked under SpecConfig).  *)

\* the value a trading parameter has after the update
Replaced(k) == IF k \in DOMAIN args' THEN args'[k] ELSE config.trading[k]

\* C23: update_trading_params returns a new Config whose trading
\* parameters are the original's with the given keys replaced and whose
\* other sections are the original's, and the original Config is left as it
\* was, also when the risk validation rejects the new values (then nothing
\* is returned).
C23_UpdateReturnsNew ==
    [][ op' = "update_trading_params" =>
          /\ config' = config
          /\ IF /\ 0 < Replaced("risk_per_unit").num
                /\ Replaced("risk_per_unit").num <= Replaced("risk_per_unit").den
                /\ 0 < Replaced("max_risk_per_position").num
                /\ Replaced("max_risk_per_position").num
                     <= Replaced("max_risk_per_position").den
             THEN /\ ~ret'.raised
                  /\ DOMAIN ret'.value = DOMAIN config
                  /\ DOMAIN ret'.value.trading = DOMAIN config.trading
                  /\ \A k \in DOMAIN config.trading :
                        ret'.value.trading[k] = Replaced(k)
                  /\ \A section \in (DOMAIN config) \ {"trading"} :
                        ret'.value[section] = config[section]
             ELSE ret'.raised ]_vars

\* the update of test_update_trading_params: system1_length = 30 and
\* risk_per_unit = 0.015 on the default configuration
C23_Witness ==
    /\ op = "update_trading_params"
    /\ DOMAIN args = {"system1_length", "risk_per_unit"}
    /\ ~ret.raised
    /\ ret.value.trading.system1_length = 30
    /\ ret.value.trading.risk_per_unit = [num |-> 3, den |-> 200]
    /\ config = DefaultConfig

\* an update that fails validation (risk_per_unit = 0)
C23_RejectedWitness ==
    /\ op = "update_trading_params"
    /\ "risk_per_unit" \in DOMAIN args
    /\ args["risk_per_unit"].num = 0
    /\ ret.raised
    /\ config \in ConfigObjects

-----------------------------------------------------------------------------
(* Properties of the signals of computed frames (checked under             *)
(* SpecPipeline).                                                          *)

LatestBar == series[Len(series)]

\* both rules of the system hold on the latest row of df
Whipsaw(df, system) == Breakout(df, system) /\ ExitBreak(df, system)

\* every bar of the series is in OHLC order
WellFormed(bars) == \A p \in 1..Len(bars) : ~BadBar(bars[p])

C26_NoSignalFromPipeline ==
    ( /\ op = "generate_signals"
      /\ Enriched
      /\ LatestBar.low <= LatestBar.close
      /\ LatestBar.close <= LatestBar.high )
    => /\ ret = EmptyDict
       /\ last_signals = before

\* the latest close far above every earlier high, windows full, no signal
C26_Witness ==
    /\ op = "generate_signals"
    /\ Enriched
    /\ ~BadBar(LatestBar)
    /\ Len(series) >= Max2(config.system1_length, config.system2_length)
    /\ \A p \in 1..(Len(series) - 1) : series[p].high < LatestBar.close
    /\ ret = EmptyDict

\* a latest bar whose high is below its close does get a BUY
C26_BadBarWitness ==
    /\ op = "generate_signals"
    /\ Enriched
    /\ LatestBar.high < LatestBar.close
    /\ BuysOf(ReturnedList, 1) # {}

-----------------------------------------------------------------------------
(* Further properties of batches (checked under Spec).                     *)

Reverse(items) == [i \in 1..Len(items) |-> items[Len(items) + 1 - i]]

\* what generate_signals returns for the one instrument, called on a fresh
\* engine
Alone(i) ==
    SignalsLoop(config, <<data[i]>>, [all |-> EmptyDict, ls |-> EmptyDict]).all

\* C25: in a batch, what generate_signals returns for an instrument is what
\* it returns for that instrument alone on a fresh engine (it depends on the
\* instrument's frame and the configuration only), and processing the
\* instruments in the opposite order ends in the same last_signals and the
\* same returned lists.
C25_InstrumentIndependence ==
    op = "generate_signals" =>
        /\ \A i \in 1..Len(data) :
              /\ SymbolAt(i) \in DOMAIN ret <=> SymbolAt(i) \in DOMAIN Alone(i)
              /\ SymbolAt(i) \in DOMAIN ret => ret[SymbolAt(i)] = Alone(i)[SymbolAt(i)]
        /\ LET other == SignalsLoop(config, Reverse(data),
                                    [all |-> EmptyDict, ls |-> before])
           IN  /\ last_signals = other.ls
               /\ ret = other.all

\* a batch of two instruments with different non-empty lists, on an engine
\* that held another list for the first of them
C25_Witness ==
    /\ op = "generate_signals"
    /\ Len(data) = 2
    /\ SymbolAt(1) \in DOMAIN ret
    /\ SymbolAt(2) \in DOMAIN ret
    /\ Len(ret[SymbolAt(1)]) # Len(ret[SymbolAt(2)])
    /\ SymbolAt(1) \in DOMAIN before
    /\ before[SymbolAt(1)] # last_signals[SymbolAt(1)]

\* System 1 fires on the frame and System 2 raises: the series is long
\* enough, close is above donchian_high of System 1, donchian_low of System 1
\* is there, donchian_high of System 2 is there and its donchian_low is not
System2RaisesAfterSystem1(df) ==
    /\ config.use_system2
    /\ df.len >= Max2(config.system1_length, config.system2_length)
    /\ Breakout(df, 1)
    /\ HasCol(df, Col("donchian_low", config.system1_length))
    /\ HasCol(df, Col("donchian_high", config.system2_length))
    /\ ~HasCol(df, Col("donchian_low", config.system2_length))

\* C27: when evaluating System 2 raises after System 1 produced signals,
\* generate_signals returns nothing for the instrument, System 1's signals
\* included, and last_signals holds for it what it held before the call.
C27_AllOrNothing ==
    op = "generate_signals" =>
        \A i \in 1..Len(data) :
            System2RaisesAfterSystem1(FrameAt(i)) =>
                /\ SymbolAt(i) \notin DOMAIN ret
                /\ SymbolAt(i) \in DOMAIN last_signals <=> SymbolAt(i) \in DOMAIN before
                /\ SymbolAt(i) \in DOMAIN before =>
                      last_signals[SymbolAt(i)] = before[SymbolAt(i)]

\* such an instrument, with a list recorded earlier, next to an instrument
\* whose signals are returned
C27_Witness ==
    /\ op = "generate_signals"
    /\ Len(data) = 2
    /\ System2RaisesAfterSystem1(FrameAt(1))
    /\ SymbolAt(1) \in DOMAIN before
    /\ last_signals[SymbolAt(1)] = before[SymbolAt(1)]
    /\ SymbolAt(2) \in DOMAIN ret

AllRecorded(ls) == AllSignals(ls, DOMAIN ls)

RECURSIVE SumOfKeys(_, _)
SumOfKeys(counts, keys) ==
    IF keys = {} THEN 0
    ELSE LET k == CHOOSE x \in keys : TRUE
         IN  counts[k] + SumOfKeys(counts, keys \ {k})

SumOfCounts(counts) == SumOfKeys(counts, DOMAIN counts)

\* what C29 says of one value of last_signals
WellRecorded(ls) ==
    /\ \A s \in DOMAIN ls :
          /\ ls[s] # <<>>
          /\ \A k \in 1..Len(ls[s]) :
                /\ ls[s][k].signal_type \in {"BUY", "EXIT"}
                /\ ls[s][k].system \in {1, 2}
                /\ ls[s][k].symbol = s
    /\ SumOfCounts(GetSignalSummary(ls).signals_by_type) = Len(AllRecorded(ls))
    /\ SumOfCounts(GetSignalSummary(ls).signals_by_system) = Len(AllRecorded(ls))

\* C29: from a fresh engine, under every sequence of generate_signals,
\* check_pyramid_signals, get_stop_loss_price and get_signal_summary calls:
\* a recorded instrument is never removed, every recorded list is non-empty,
\* every recorded signal is a BUY or an EXIT of system 1 or 2 under its own
\* symbol, total_symbols never decreases, and the counts by type and by
\* system each sum to the number of recorded signals.
C29_LastSignalsInvariant ==
    /\ []WellRecorded(last_signals)
    /\ [][ /\ DOMAIN last_signals \subseteq DOMAIN last_signals'
           /\ GetSignalSummary(last_signals').total_symbols
                >= GetSignalSummary(last_signals).total_symbols ]_vars

\* two instruments recorded, one of them given an empty result afterwards
C29_Witness ==
    /\ op = "generate_signals"
    /\ Cardinality(DOMAIN last_signals) = 2
    /\ \E i \in 1..Len(data) :
          /\ SymbolAt(i) \notin DOMAIN ret
          /\ ~Computed(i).raised
          /\ SymbolAt(i) \in DOMAIN last_signals
    /\ Len(AllRecorded(last_signals)) >= 3

-----------------------------------------------------------------------------
(* The minimum history with System 2 switched off (checked under           *)
(* SpecFrame).                                                             *)

\* C28: with use_system2 false, a series of at least system1_length and
\* fewer than system2_length rows gets no signal, also when the System 1
\* entry or exit condition holds on its latest row.
C28_GateCountsSystem2 ==
    ( /\ op = "generate_signals"
      /\ ~config.use_system2
      /\ TheFrame.len >= config.system1_length
      /\ TheFrame.len < config.system2_length )
    => /\ ret = EmptyDict
       /\ last_signals = before

\* such a series on whose latest row System 1 would enter and exit
C28_Witness ==
    /\ op = "generate_signals"
    /\ ~config.use_system2
    /\ TheFrame.len >= config.system1_length
    /\ TheFrame.len < config.system2_length
    /\ Breakout(TheFrame, 1)
    /\ ExitBreak(TheFrame, 1)
    /\ HasCol(TheFrame, Col("donchian_low", config.system1_length))
    /\ ret = EmptyDict

-----------------------------------------------------------------------------
(* Properties of validate_data_quality (checked under SpecIndicators).     *)

IssueSet(issues) == { issues[k] : k \in 1..Len(issues) }

\* C30: validate_data_quality returns is_valid = True exactly when it found
\* no issue, and on every frame with at least one row that
\* calculate_technical_indicators returned it returns is_valid = False with
\* the issue 'Missing data found'.
C30_EnrichedNeverValid ==
    op = "validate_data_quality" =>
        /\ ret.is_valid <=> ret.issues = <<>>
        /\ (args.df = IndicatorTable(series) /\ series # <<>>) =>
              /\ ~ret.is_valid
              /\ "Missing data found" \in IssueSet(ret.issues)

\* the computed frame of a well-formed series of 60 bars or more: missing
\* data is its only issue
C30_Witness ==
    /\ op = "validate_data_quality"
    /\ series # <<>>
    /\ args.df = IndicatorTable(series)
    /\ ret.issues = <<"Missing data found">>
    /\ ~ret.is_valid

\* the price frame of the same kind of series, before the computation, is
\* valid
C30_ValidWitness ==
    /\ op = "validate_data_quality"
    /\ args.df = PriceTable(series)
    /\ Len(series) = MaxBars
    /\ ret.is_valid
    /\ ret.issues = <<>>

====
